---- MODULE Spec2Model ----
(***************************************************************************)
(* Batch image generator (generate.js and its SERIAL-aware variant):       *)
(* the sequential prompt loop with its un-awaited post-processing promise  *)
(* chains, the image payload extractor and the filename resolver.          *)
(*                                                                         *)
(* JavaScript strings are sequences of one-character strings.              *)
(* JavaScript values of a response are records [t, keys, vals, s]:         *)
(*   t = "obj"  keys/vals = the own properties in Object.keys order        *)
(*   t = "arr"  vals = the elements                                        *)
(*   t = "str"  s = the characters      t = "num"  s = the decimal digits  *)
(*   t = "null", t = "undef"                                               *)
(*   t = "threw" is the outcome of an expression that raised a TypeError.  *)
(***************************************************************************)
EXTENDS Integers, Sequences, FiniteSets, TLC

VARIABLES
    version,    \* which of the two programs runs: "generate" or "serial"
    SERIAL,     \* process.env.SERIAL || '' (always '' for generate.js)
    prompts,    \* IMAGE_PROMPTS: the filename of each entry (<<>> = falsy)
    pc,         \* position of generateAndSaveImages
    i,          \* the loop variable
    gen,        \* per entry: state of its generateContent promise
    response,   \* the response the current entry's call resolved with
    found,      \* per entry: outcome of the extraction step
    post,       \* per entry: state of its import('sharp') promise chain
    files,      \* per entry: the file names passed to fs.writeFileSync
    diags,      \* per entry: the diagnostics logged (warn / error)
    visited,    \* the entries the loop body was entered for, in order
    calls,      \* per entry: number of generateContent calls issued
    finished,   \* the completion message was printed
    nm,         \* filename resolver under test
    ex          \* payload extractor under test

vars == <<version, SERIAL, prompts, pc, i, gen, response, found, post, files,
          diags, visited, calls, finished, nm, ex>>

batchVars == <<version, SERIAL, prompts, pc, i, gen, response, found, post,
               files, diags, visited, calls, finished>>

-----------------------------------------------------------------------------
(* Bounds *)

MaxPrompts == 2
MaxTokens == 3
MaxDepth == 10
MaxParts == 2

-----------------------------------------------------------------------------
(* Strings *)

UpperLetters ==
    <<"A","B","C","D","E","F","G","H","I","J","K","L","M",
      "N","O","P","Q","R","S","T","U","V","W","X","Y","Z">>

LowerLetters ==
    <<"a","b","c","d","e","f","g","h","i","j","k","l","m",
      "n","o","p","q","r","s","t","u","v","w","x","y","z">>

LowerChar(c) ==
    IF \E k \in 1..26 : UpperLetters[k] = c
    THEN LowerLetters[CHOOSE k \in 1..26 : UpperLetters[k] = c]
    ELSE c

toLowerCase(s) == [k \in 1..Len(s) |-> LowerChar(s[k])]

endsWith(s, suffix) ==
    /\ Len(s) >= Len(suffix)
    /\ SubSeq(s, Len(s) - Len(suffix) + 1, Len(s)) = suffix

startsWith(s, prefix) ==
    /\ Len(s) >= Len(prefix)
    /\ SubSeq(s, 1, Len(prefix)) = prefix

includes(s, sub) ==
    \E k \in 1..(Len(s) - Len(sub) + 1) : SubSeq(s, k, k + Len(sub) - 1) = sub

\* String.prototype.replace with a global literal pattern: every occurrence,
\* scanning left to right, occurrences do not overlap.
RECURSIVE replaceAll(_, _, _)
replaceAll(s, pat, rep) ==
    IF s = <<>> THEN <<>>
    ELSE IF startsWith(s, pat)
         THEN rep \o replaceAll(SubSeq(s, Len(pat) + 1, Len(s)), pat, rep)
         ELSE <<Head(s)>> \o replaceAll(Tail(s), pat, rep)

Digits == <<"0","1","2","3","4","5","6","7","8","9">>

\* `${n}` for a non-negative integer n
RECURSIVE numToString(_)
numToString(n) ==
    IF n < 10 THEN <<Digits[n + 1]>>
    ELSE numToString(n \div 10) \o <<Digits[(n % 10) + 1]>>

DotJpg == <<".","j","p","g">>

Placeholder == <<"{","t","i","m","e","s","t","a","m","p","}">>

-----------------------------------------------------------------------------
(* Filename resolution *)

\* fileName.replace(/\.[^.]+$/, ''): the last dot and what follows it, when
\* at least one character follows it
stripExtension(fileName) ==
    IF \E k \in 1..(Len(fileName) - 1) :
           /\ fileName[k] = "."
           /\ \A m \in (k + 1)..Len(fileName) : fileName[m] # "."
    THEN LET k == CHOOSE k \in 1..(Len(fileName) - 1) :
                      /\ fileName[k] = "."
                      /\ \A m \in (k + 1)..Len(fileName) : fileName[m] # "."
         IN  SubSeq(fileName, 1, k - 1)
    ELSE fileName

\* faulty variant: the appended extension lost its dot
ensureJpgNoDot(fileName) ==
    IF ~endsWith(toLowerCase(fileName), DotJpg)
    THEN stripExtension(fileName) \o <<"j","p","g">>
    ELSE fileName

\* "Ensure .jpg extension"
ensureJpg(fileName) ==
    IF ~endsWith(toLowerCase(fileName), DotJpg)
    THEN stripExtension(fileName) \o DotJpg
    ELSE fileName

\* "Replace timestamp placeholder if present"
substituteTimestamp(requestedFilename, now) ==
    IF includes(requestedFilename, Placeholder)
    THEN replaceAll(requestedFilename, Placeholder, numToString(now))
    ELSE requestedFilename

\* faulty variant: the serial is prepended without the startsWith test
prependSerialAlways(serial, fileName) ==
    IF serial # <<>> THEN serial \o <<"_">> \o fileName ELSE fileName

\* "Prepend serial if provided and not already part of the filename"
prependSerial(serial, fileName) ==
    IF serial # <<>> /\ ~startsWith(fileName, serial \o <<"_">>)
    THEN serial \o <<"_">> \o fileName
    ELSE fileName

\* faulty variant: a supplied filename is honoured without enforcing the extension
resolveFileNameAsGiven(requestedFilename, idx, serial, now) ==
    IF requestedFilename # <<>>
    THEN prependSerial(serial, substituteTimestamp(requestedFilename, now))
    ELSE <<"i","m","a","g","e","_">> \o numToString(idx + 1) \o <<"_">>
             \o (IF serial # <<>> THEN serial \o <<"_">> ELSE <<>>)
             \o numToString(now) \o DotJpg

\* The name written for entry index idx (0-based) at time now.
resolveFileName(requestedFilename, idx, serial, now) ==
    LET serialSegment == IF serial # <<>> THEN serial \o <<"_">> ELSE <<>>
    IN  IF requestedFilename # <<>>
        THEN prependSerial(serial,
                 ensureJpg(substituteTimestamp(requestedFilename, now)))
        ELSE <<"i","m","a","g","e","_">> \o numToString(idx + 1) \o <<"_">>
                 \o serialSegment \o numToString(now) \o DotJpg

-----------------------------------------------------------------------------
(* JavaScript values *)

Undef == [t |-> "undef", keys |-> <<>>, vals |-> <<>>, s |-> <<>>]

Null == [t |-> "null", keys |-> <<>>, vals |-> <<>>, s |-> <<>>]

Threw == [t |-> "threw", keys |-> <<>>, vals |-> <<>>, s |-> <<>>]

Str(chars) == [t |-> "str", keys |-> <<>>, vals |-> <<>>, s |-> chars]

Num(digits) == [t |-> "num", keys |-> <<>>, vals |-> <<>>, s |-> digits]

Arr(elems) == [t |-> "arr", keys |-> <<>>, vals |-> elems, s |-> <<>>]

Obj(ks, vs) == [t |-> "obj", keys |-> ks, vals |-> vs, s |-> <<>>]

Nullish(v) == v.t \in {"null", "undef"}

\* ToBoolean
Truthy(v) ==
    /\ ~Nullish(v)
    /\ ~(v.t = "num" /\ v.s = <<"0">>)
    /\ ~(v.t = "str" /\ v.s = <<>>)

\* v.k for a v that is neither null nor undefined
Get(v, k) ==
    IF v.t = "obj" /\ \E n \in 1..Len(v.keys) : v.keys[n] = k
    THEN v.vals[CHOOSE n \in 1..Len(v.keys) : v.keys[n] = k]
    ELSE Undef

\* v[0] for a v that is neither null nor undefined
Index0(v) ==
    CASE v.t = "arr" -> IF Len(v.vals) > 0 THEN v.vals[1] ELSE Undef
      [] v.t = "str" -> IF Len(v.s) > 0 THEN Str(<<v.s[1]>>) ELSE Undef
      [] OTHER -> Get(v, "0")

\* v.k : a TypeError on null and undefined
Dot(v, k) ==
    IF v.t = "threw" THEN Threw
    ELSE IF Nullish(v) THEN Threw ELSE Get(v, k)

\* v?.k
QDot(v, k) ==
    IF v.t = "threw" THEN Threw
    ELSE IF Nullish(v) THEN Undef ELSE Get(v, k)

\* v?.[0]
QIndex0(v) ==
    IF v.t = "threw" THEN Threw
    ELSE IF Nullish(v) THEN Undef ELSE Index0(v)

ImagePrefix == <<"i","m","a","g","e","/">>

-----------------------------------------------------------------------------
(* Image payload extraction *)

\* (part) => part.inlineData?.mimeType?.startsWith('image/')
\* "yes" / "no" for a truthy / falsy result, "throw" for a TypeError
partIsImage(part) ==
    IF Nullish(part) THEN "throw"
    ELSE LET mimeType == QDot(Get(part, "inlineData"), "mimeType")
         IN  IF Nullish(mimeType) THEN "no"
             ELSE IF mimeType.t # "str" THEN "throw"
             ELSE IF startsWith(mimeType.s, ImagePrefix) THEN "yes" ELSE "no"

\* (part) => part.inlineData?.mimeType.startsWith('image/')
partIsImageStrict(part) ==
    IF Nullish(part) THEN "throw"
    ELSE LET inlineData == Get(part, "inlineData")
         IN  IF Nullish(inlineData) THEN "no"
             ELSE LET mimeType == Get(inlineData, "mimeType")
                  IN  IF mimeType.t # "str" THEN "throw"
                      ELSE IF startsWith(mimeType.s, ImagePrefix)
                           THEN "yes" ELSE "no"

\* parts.find(test) once parts is known not to be null or undefined, given
\* the outcome of the test on each element: only arrays have find
ArrayFind(parts, outcome) ==
    IF parts.t # "arr" THEN Threw
    ELSE IF \A k \in 1..Len(parts.vals) : outcome[k] = "no" THEN Undef
    ELSE LET k == CHOOSE k \in 1..Len(parts.vals) :
                      /\ outcome[k] # "no"
                      /\ \A m \in 1..(k - 1) : outcome[m] = "no"
         IN  IF outcome[k] = "throw" THEN Threw ELSE parts.vals[k]

\* response.candidates?.[0]?.content?.parts?.find(...)
directPath(resp) ==
    LET parts == QDot(QDot(QIndex0(Dot(resp, "candidates")), "content"), "parts")
    IN  IF parts.t = "threw" THEN Threw
        ELSE IF Nullish(parts) THEN Undef
        ELSE ArrayFind(parts,
                 [k \in 1..Len(parts.vals) |-> partIsImage(parts.vals[k])])

\* response.candidates[0]?.content.parts.find(...)
directPathStrict(resp) ==
    LET candidates == Dot(resp, "candidates")
        candidate == IF candidates.t = "threw" \/ Nullish(candidates)
                     THEN Threw ELSE Index0(candidates)
        parts == IF candidate.t = "threw" THEN Threw
                 ELSE IF Nullish(candidate) THEN Undef
                 ELSE Dot(Get(candidate, "content"), "parts")
    IN  IF parts.t = "threw" THEN Threw
        ELSE IF Nullish(candidate) THEN Undef
        ELSE IF Nullish(parts) THEN Threw
        ELSE ArrayFind(parts,
                 [k \in 1..Len(parts.vals) |-> partIsImageStrict(parts.vals[k])])

SearchDepth == 8

\* node.inlineData && typeof node.inlineData.mimeType === 'string'
\*    && node.inlineData.mimeType.startsWith('image/')
nodeIsImage(node) ==
    LET inlineData == Get(node, "inlineData")
    IN  /\ Truthy(inlineData)
        /\ Get(inlineData, "mimeType").t = "str"
        /\ startsWith(Get(inlineData, "mimeType").s, ImagePrefix)

\* the first truthy result over the children, else null
FirstResult(results) ==
    IF \A k \in 1..Len(results) : ~Truthy(results[k]) THEN Null
    ELSE results[CHOOSE k \in 1..Len(results) :
                     /\ Truthy(results[k])
                     /\ \A m \in 1..(k - 1) : ~Truthy(results[m])]

\* faulty variant: the depth test is off by one
RECURSIVE findImagePartShallow(_, _)
findImagePartShallow(node, depth) ==
    IF ~Truthy(node) \/ depth >= SearchDepth THEN Null
    ELSE IF node.t = "arr"
         THEN FirstResult([k \in 1..Len(node.vals) |->
                              findImagePartShallow(node.vals[k], depth + 1)])
    ELSE IF node.t = "obj"
         THEN IF nodeIsImage(node) THEN node
              ELSE FirstResult([k \in 1..Len(node.vals) |->
                                   findImagePartShallow(node.vals[k], depth + 1)])
    ELSE Null

RECURSIVE findImagePart(_, _)
findImagePart(node, depth) ==
    IF ~Truthy(node) \/ depth > SearchDepth THEN Null
    ELSE IF node.t = "arr"
         THEN FirstResult([k \in 1..Len(node.vals) |->
                              findImagePart(node.vals[k], depth + 1)])
    ELSE IF node.t = "obj"
         THEN IF nodeIsImage(node) THEN node
              ELSE FirstResult([k \in 1..Len(node.vals) |->
                                   findImagePart(node.vals[k], depth + 1)])
    ELSE Null

\* imagePart of generate.js: the direct path, then the structural search
extractImagePart(resp) ==
    LET direct == directPath(resp)
    IN  IF direct.t = "threw" THEN Threw
        ELSE IF ~Truthy(direct) THEN findImagePart(resp, 0)
        ELSE direct

\* imagePart of the SERIAL variant: the direct path only
extractImagePartStrict(resp) == directPathStrict(resp)

\* Buffer.from(imagePart.inlineData.data, 'base64') raises a TypeError unless
\* data is a string (or an array of octets)
decodeThrows(imagePart) ==
    Get(Get(imagePart, "inlineData"), "data").t \notin {"str", "arr"}

\* the candidate summaries of the "not found" branch raise a TypeError when
\* candidates or a parts value has no map, or a part is null or undefined
summaryThrows(resp) ==
    LET candidates == Get(resp, "candidates")
    IN  IF Nullish(candidates) THEN FALSE
        ELSE IF candidates.t # "arr" THEN TRUE
        ELSE \E k \in 1..Len(candidates.vals) :
                 LET parts == QDot(QDot(candidates.vals[k], "content"), "parts")
                 IN  /\ ~Nullish(parts)
                     /\ \/ parts.t # "arr"
                        \/ \E n \in 1..Len(parts.vals) : Nullish(parts.vals[n])

-----------------------------------------------------------------------------
(* The filename resolver on its own: every template built from at most     *)
(* MaxTokens tokens, with and without a run identifier.                    *)

Run1 == <<"r","u","n","1">>

RulerPng == <<"r","u","l","e","r",".","p","n","g">>

Tokens ==
    { <<"a">>, <<".">>, DotJpg, <<".","J","P","G">>, <<".","p","n","g">>,
      Run1 \o <<"_">>, Placeholder }

RECURSIVE TokenStrings(_)
TokenStrings(n) ==
    IF n = 0 THEN { <<>> }
    ELSE LET shorter == TokenStrings(n - 1)
         IN  shorter \cup { t \o s : t \in Tokens, s \in shorter }

Templates == TokenStrings(MaxTokens) \cup { RulerPng }

Serials == { <<>>, Run1 }

Times == { 7, 1700 }

NmInit ==
    nm \in [ stage : {"input"}, template : Templates, serial : Serials,
             idx : 0..(MaxPrompts - 1), now : Times, out : { <<>> } ]

\* the extension rule applied to the name as supplied
NmEnsureJpg ==
    /\ nm.stage = "input"
    /\ nm' = [nm EXCEPT !.stage = "ensured", !.out = ensureJpg(nm.template)]

\* the extension rule applied to its own result
NmEnsureJpgAgain ==
    /\ nm.stage = "ensured"
    /\ nm' = [nm EXCEPT !.stage = "ensuredTwice", !.out = ensureJpg(nm.out)]

NmResolve ==
    /\ nm.stage = "input"
    /\ nm' = [nm EXCEPT !.stage = "resolved",
                        !.out = resolveFileName(nm.template, nm.idx,
                                                nm.serial, nm.now)]

NmIdle == [ stage |-> "idle", template |-> <<>>, serial |-> <<>>,
            idx |-> 0, now |-> 0, out |-> <<>> ]

-----------------------------------------------------------------------------
(* The payload extractor on its own.  Responses are of two families:       *)
(* an image part under 0..MaxDepth wrapper objects and arrays, and the     *)
(* documented shape {candidates: [{content: {parts}}]} with every parts    *)
(* list of at most MaxParts elements, optionally with a sibling property   *)
(* that holds an image part off the direct path.                           *)

ImagePng == <<"i","m","a","g","e","/","p","n","g">>

TextPlain == <<"t","e","x","t","/","p","l","a","i","n">>

InlineData(mimeType, data) ==
    Obj(<<"inlineData">>, <<Obj(<<"mimeType", "data">>, <<mimeType, data>>)>>)

ImagePartOf(tag) == InlineData(Str(ImagePng), Str(<<tag>>))

TextPart == Obj(<<"text">>, <<Str(<<"h","i">>)>>)

RECURSIVE Wrapped(_, _)
Wrapped(kinds, leaf) ==
    IF kinds = <<>> THEN leaf
    ELSE IF Head(kinds) = "arr"
         THEN Arr(<<Wrapped(Tail(kinds), leaf)>>)
         ELSE Obj(<<"w">>, <<Wrapped(Tail(kinds), leaf)>>)

NestedResponses ==
    { Wrapped(kinds, ImagePartOf("N")) :
          kinds \in UNION { [1..d -> {"obj", "arr"}] : d \in 0..MaxDepth } }

PartValues ==
    { TextPart, ImagePartOf("A"), ImagePartOf("B"),
      InlineData(Str(TextPlain), Str(<<"T">>)),
      InlineData(Num(<<"5">>), Str(<<"X">>)),
      Null }

PartsValues ==
    { Arr(ps) : ps \in UNION { [1..n -> PartValues] : n \in 0..MaxParts } }
        \cup { Obj(<<"0">>, <<ImagePartOf("A")>>), Undef }

SiblingValues ==
    { Undef, ImagePartOf("C"), Arr(<<TextPart, Obj(<<"w">>, <<ImagePartOf("C")>>)>>) }

Shaped(sibling, siblingFirst, parts) ==
    LET content == IF parts.t = "undef" THEN Obj(<<>>, <<>>)
                   ELSE Obj(<<"parts">>, <<parts>>)
        candidates == Arr(<<Obj(<<"content">>, <<content>>)>>)
    IN  IF sibling.t = "undef" THEN Obj(<<"candidates">>, <<candidates>>)
        ELSE IF siblingFirst
             THEN Obj(<<"meta", "candidates">>, <<sibling, candidates>>)
             ELSE Obj(<<"candidates", "meta">>, <<candidates, sibling>>)

ShapedResponses ==
    { Shaped(sibling, siblingFirst, parts) :
          sibling \in SiblingValues, siblingFirst \in BOOLEAN,
          parts \in PartsValues }

ExInit ==
    ex \in [ stage : {"input"}, resp : NestedResponses \cup ShapedResponses,
            out : {Undef} ]

\* the extraction step of generate.js
ExExtract ==
    /\ ex.stage = "input"
    /\ ex' = [ex EXCEPT !.stage = "extracted", !.out = extractImagePart(ex.resp)]

\* the extraction step of the SERIAL variant
ExExtractStrict ==
    /\ ex.stage = "input"
    /\ ex' = [ex EXCEPT !.stage = "extractedStrict",
                        !.out = extractImagePartStrict(ex.resp)]

ExIdle == [ stage |-> "idle", resp |-> Undef, out |-> Undef ]

-----------------------------------------------------------------------------
(* generateAndSaveImages.  The function runs to completion between two     *)
(* awaits: promise callbacks run only while it is suspended in the await   *)
(* (pc = "await") or has returned (pc = "done").                           *)

BatchTemplates == { <<>>, <<"a",".","p","n","g">> }

BatchResponses ==
    { Shaped(Undef, FALSE, Arr(<<TextPart, ImagePartOf("A")>>)),
      Wrapped(<<"obj", "arr">>, ImagePartOf("N")),
      Shaped(Undef, FALSE, Arr(<<TextPart>>)),
      Shaped(Undef, FALSE, Arr(<<InlineData(Str(ImagePng), Undef)>>)),
      Shaped(Undef, FALSE, Arr(<<Null>>)) }

Entries == 1..Len(prompts)

\* imagePart for each program and each response, computed once
imagePartOf ==
    [v \in {"generate", "serial"} |->
        [r \in BatchResponses |->
            IF v = "generate" THEN extractImagePart(r)
            ELSE extractImagePartStrict(r)]]

BatchInit ==
    /\ version \in {"generate", "serial"}
    /\ SERIAL \in IF version = "serial" THEN Serials ELSE { <<>> }
    /\ prompts \in UNION { [1..n -> BatchTemplates] : n \in 1..MaxPrompts }
    /\ pc = "loop"
    /\ i = 0
    /\ gen = [e \in Entries |-> "none"]
    /\ response = Undef
    /\ found = [e \in Entries |-> "none"]
    /\ post = [e \in Entries |-> "none"]
    /\ files = [e \in Entries |-> <<>>]
    /\ diags = [e \in Entries |-> <<>>]
    /\ visited = <<>>
    /\ calls = [e \in Entries |-> 0]
    /\ finished = FALSE

\* faulty variant: the call is not awaited, the loop goes on to the next entry
IssueCallNoAwait ==
    /\ pc = "loop"
    /\ i < Len(prompts)
    /\ visited' = Append(visited, i + 1)
    /\ calls' = [calls EXCEPT ![i + 1] = @ + 1]
    /\ gen' = [gen EXCEPT ![i + 1] = "pending"]
    /\ i' = i + 1
    /\ UNCHANGED <<version, SERIAL, prompts, pc, response, found, post, files,
                   diags, finished, nm, ex>>

\* loop test true: the body is entered for entry i + 1 and suspends in
\* await ai.models.generateContent(...)
IssueCall ==
    /\ pc = "loop"
    /\ i < Len(prompts)
    /\ visited' = Append(visited, i + 1)
    /\ calls' = [calls EXCEPT ![i + 1] = @ + 1]
    /\ gen' = [gen EXCEPT ![i + 1] = "pending"]
    /\ pc' = "await"
    /\ UNCHANGED <<version, SERIAL, prompts, i, response, found, post, files,
                   diags, finished, nm, ex>>

\* loop test false: the completion message
Finish ==
    /\ pc = "loop"
    /\ i >= Len(prompts)
    /\ finished' = TRUE
    /\ pc' = "done"
    /\ UNCHANGED <<version, SERIAL, prompts, i, gen, response, found, post,
                   files, diags, visited, calls, nm, ex>>

\* the call resolves with a response: the function resumes after the await
CallResolved ==
    /\ pc = "await"
    /\ gen[i + 1] = "pending"
    /\ \E r \in BatchResponses : response' = r
    /\ gen' = [gen EXCEPT ![i + 1] = "fulfilled"]
    /\ pc' = "resumed"
    /\ UNCHANGED <<version, SERIAL, prompts, i, found, post, files, diags,
                   visited, calls, finished, nm, ex>>

\* faulty variant: no try/catch around the call, the rejection leaves the function
CallRejectedUncaught ==
    /\ pc = "await"
    /\ gen[i + 1] = "pending"
    /\ gen' = [gen EXCEPT ![i + 1] = "rejected"]
    /\ pc' = "done"
    /\ UNCHANGED <<version, SERIAL, prompts, i, response, found, post, files,
                   diags, visited, calls, finished, nm, ex>>

\* the call rejects: the catch block logs the error, the loop goes on
CallRejected ==
    /\ pc = "await"
    /\ gen[i + 1] = "pending"
    /\ gen' = [gen EXCEPT ![i + 1] = "rejected"]
    /\ diags' = [diags EXCEPT ![i + 1] = Append(@, "generate")]
    /\ i' = i + 1
    /\ pc' = "loop"
    /\ UNCHANGED <<version, SERIAL, prompts, response, found, post, files,
                   visited, calls, finished, nm, ex>>

\* the rest of the try block: extraction, then either the start of the
\* post-processing chain (not awaited) or the "not found" diagnostics; a
\* TypeError on the way is caught by the same catch block
ExtractStep ==
    /\ pc = "resumed"
    /\ LET e == i + 1
           imagePart == imagePartOf[version][response]
       IN  IF imagePart.t = "threw"
           THEN /\ found' = [found EXCEPT ![e] = "threw"]
                /\ diags' = [diags EXCEPT ![e] = Append(@, "generate")]
                /\ post' = post
           ELSE IF Truthy(imagePart) /\ Truthy(Get(imagePart, "inlineData"))
           THEN /\ found' = [found EXCEPT ![e] = "yes"]
                /\ IF decodeThrows(imagePart)
                   THEN /\ diags' = [diags EXCEPT ![e] = Append(@, "generate")]
                        /\ post' = post
                   ELSE /\ diags' = diags
                        /\ post' = [post EXCEPT ![e] = "importing"]
           ELSE /\ found' = [found EXCEPT ![e] = "no"]
                /\ post' = post
                /\ IF version = "generate" /\ summaryThrows(response)
                   THEN diags' = [diags EXCEPT ![e] = Append(@, "generate")]
                   ELSE diags' = [diags EXCEPT ![e] = Append(@, "notFound")]
    /\ response' = Undef
    /\ i' = i + 1
    /\ pc' = "loop"
    /\ UNCHANGED <<version, SERIAL, prompts, gen, files, visited, calls,
                   finished, nm, ex>>

Suspended == pc \in {"await", "done"}

\* import('sharp') fulfilled: the conversion pipeline is started
SharpLoaded(e) ==
    /\ Suspended
    /\ post[e] = "importing"
    /\ post' = [post EXCEPT ![e] = "converting"]
    /\ UNCHANGED <<version, SERIAL, prompts, pc, i, gen, response, found,
                   files, diags, visited, calls, finished, nm, ex>>

\* import('sharp') rejected, or its callback threw: the outer .catch
SharpLoadFailed(e) ==
    /\ Suspended
    /\ post[e] = "importing"
    /\ post' = [post EXCEPT ![e] = "failed"]
    /\ diags' = [diags EXCEPT ![e] = Append(@, "sharpLoad")]
    /\ UNCHANGED <<version, SERIAL, prompts, pc, i, gen, response, found,
                   files, visited, calls, finished, nm, ex>>

\* toBuffer() fulfilled: the name is resolved and the file written
ConvertDone(e) ==
    /\ Suspended
    /\ post[e] = "converting"
    /\ \E now \in Times :
           files' = [files EXCEPT ![e] =
                        Append(@, resolveFileName(prompts[e], e - 1, SERIAL, now))]
    /\ post' = [post EXCEPT ![e] = "written"]
    /\ UNCHANGED <<version, SERIAL, prompts, pc, i, gen, response, found,
                   diags, visited, calls, finished, nm, ex>>

\* faulty variant: the error of the conversion is swallowed
ConvertFailedSilent(e) ==
    /\ Suspended
    /\ post[e] = "converting"
    /\ post' = [post EXCEPT ![e] = "failed"]
    /\ UNCHANGED <<version, SERIAL, prompts, pc, i, gen, response, found,
                   files, diags, visited, calls, finished, nm, ex>>

\* faulty variant: the file is written before the conversion is known to succeed
ConvertFailedAfterWrite(e) ==
    /\ Suspended
    /\ post[e] = "converting"
    /\ post' = [post EXCEPT ![e] = "failed"]
    /\ files' = [files EXCEPT ![e] =
                    Append(@, resolveFileName(prompts[e], e - 1, SERIAL, 7))]
    /\ diags' = [diags EXCEPT ![e] = Append(@, "convert")]
    /\ UNCHANGED <<version, SERIAL, prompts, pc, i, gen, response, found,
                   visited, calls, finished, nm, ex>>

\* toBuffer() rejected, or writeFileSync threw: the inner .catch
ConvertFailed(e) ==
    /\ Suspended
    /\ post[e] = "converting"
    /\ post' = [post EXCEPT ![e] = "failed"]
    /\ diags' = [diags EXCEPT ![e] = Append(@, "convert")]
    /\ UNCHANGED <<version, SERIAL, prompts, pc, i, gen, response, found,
                   files, visited, calls, finished, nm, ex>>

Init == BatchInit /\ nm = NmIdle /\ ex = ExIdle

Next ==
    \/ IssueCall
    \/ Finish
    \/ CallResolved
    \/ CallRejected
    \/ ExtractStep
    \/ \E e \in Entries : SharpLoaded(e)
    \/ \E e \in Entries : SharpLoadFailed(e)
    \/ \E e \in Entries : ConvertDone(e)
    \/ \E e \in Entries : ConvertFailed(e)

Spec == Init /\ [][Next]_vars

\* Every pending promise settles and every settled promise's callback runs:
\* the event loop keeps the process alive while work is pending.
FairSpec == Spec /\ WF_vars(Next)

BatchIdle ==
    /\ version = "generate"
    /\ SERIAL = <<>>
    /\ prompts = <<>>
    /\ pc = "idle"
    /\ i = 0
    /\ gen = <<>>
    /\ response = Undef
    /\ found = <<>>
    /\ post = <<>>
    /\ files = <<>>
    /\ diags = <<>>
    /\ visited = <<>>
    /\ calls = <<>>
    /\ finished = FALSE

NameInit == BatchIdle /\ NmInit /\ ex = ExIdle

NameNext ==
    \/ NmEnsureJpg /\ UNCHANGED <<batchVars, ex>>
    \/ NmEnsureJpgAgain /\ UNCHANGED <<batchVars, ex>>
    \/ NmResolve /\ UNCHANGED <<batchVars, ex>>

NameSpec == NameInit /\ [][NameNext]_vars

ExtractInit == BatchIdle /\ nm = NmIdle /\ ExInit

ExtractNext ==
    \/ ExExtract /\ UNCHANGED <<batchVars, nm>>
    \/ ExExtractStrict /\ UNCHANGED <<batchVars, nm>>

ExtractSpec == ExtractInit /\ [][ExtractNext]_vars

-----------------------------------------------------------------------------
(* Properties of the batch *)

PostPending(e) == post[e] \in {"importing", "converting"}

\* the function has returned and no promise chain is pending
Terminated == pc = "done" /\ \A e \in Entries : ~PostPending(e)

ExactlyOneOutcome(e) ==
    \/ Len(files[e]) = 1 /\ diags[e] = <<>>
    \/ files[e] = <<>> /\ Len(diags[e]) = 1

C1_Safety ==
    \A e \in Entries :
        /\ ~(files[e] # <<>> /\ diags[e] # <<>>)
        /\ Len(files[e]) <= 1
        /\ Len(diags[e]) <= 1
        /\ files[e] # <<>> => found[e] = "yes"

\* C1: for every entry, whatever the outcome of the call, the extraction and
\* the post-processing, a file and a diagnostic are never both produced, a
\* file is produced only after a successful extraction, and eventually (and
\* from then on) exactly one of the two has been produced.
C1_ExactlyOneOutcome ==
    [](C1_Safety) /\ <>[](\A e \in Entries : ExactlyOneOutcome(e))

C1_Witness ==
    /\ Terminated
    /\ \E e \in Entries : post[e] = "written" /\ Len(files[e]) = 1
    /\ \E e \in Entries : gen[e] = "rejected" /\ Len(diags[e]) = 1

InOrder(seq) == \A k \in 1..Len(seq) : seq[k] = k

\* C2: no per-entry failure aborts the batch: the loop body is entered for
\* the entries in order, each entry's call is issued at most once, the
\* completion message comes after every entry was visited, and it always
\* comes.
C2_BatchCompletes ==
    /\ [](InOrder(visited) /\ \A e \in Entries : calls[e] <= 1)
    /\ [](finished => Len(visited) = Len(prompts))
    /\ <>finished

C2_Witness ==
    /\ finished
    /\ Len(prompts) >= 2
    /\ gen[1] = "rejected"
    /\ found[2] \in {"no", "threw"}
    /\ visited = [k \in 1..Len(prompts) |-> k]

\* C3 as stated: every entry whose extraction finds a payload ends with one
\* file write, and an entry whose extraction fails ends with no file write
\* and one logged diagnostic.
C3_OneFilePerPayload ==
    Terminated =>
        \A e \in Entries :
            /\ found[e] = "yes" => Len(files[e]) = 1
            /\ found[e] \in {"no", "threw"} =>
                   files[e] = <<>> /\ Len(diags[e]) = 1

\* C3 amended: never more than one file write per entry and none without an
\* extracted payload; an entry whose extraction finds a payload ends with
\* one file write when decoding, conversion and the write succeed and with no
\* file write and one logged error otherwise; an entry whose extraction
\* fails ends with no file write and one logged diagnostic.
C3_AtMostOneFilePerPayload ==
    /\ \A e \in Entries :
           Len(files[e]) <= 1 /\ (files[e] # <<>> => found[e] = "yes")
    /\ Terminated =>
           \A e \in Entries :
               /\ found[e] = "yes" /\ post[e] = "written" =>
                      Len(files[e]) = 1 /\ diags[e] = <<>>
               /\ found[e] = "yes" /\ post[e] # "written" =>
                      files[e] = <<>> /\ Len(diags[e]) = 1
               /\ found[e] \in {"no", "threw"} =>
                      files[e] = <<>> /\ Len(diags[e]) = 1

C3_Witness ==
    /\ Terminated
    /\ \E e \in Entries :
           found[e] = "yes" /\ post[e] = "failed" /\ files[e] = <<>>
    /\ \E e \in Entries : found[e] = "yes" /\ Len(files[e]) = 1

\* C4: the post-process-and-write cycle of one entry is never in progress
\* while the generation call or the post-process-and-write cycle of another
\* entry is in progress.
C4_NoOverlap ==
    \A e1 \in Entries : \A e2 \in Entries \ {e1} :
        ~(PostPending(e1) /\ (gen[e2] = "pending" \/ PostPending(e2)))

Settled(e) == gen[e] \in {"fulfilled", "rejected"}

\* what follows the await has run for entry e: the extraction step on a
\* response, the catch block on a rejection
Handled(e) ==
    \/ gen[e] = "fulfilled" /\ found[e] # "none"
    \/ gen[e] = "rejected" /\ diags[e] # <<>>

\* C10: at most one generation call is in flight; the call of an entry is
\* issued only after the call of the entry before it has settled and that
\* entry was handled; the completion message comes only after every call has
\* settled.
C10_CallsSerialized ==
    /\ Cardinality({e \in Entries : gen[e] = "pending"}) <= 1
    /\ \A e \in Entries :
           (e > 1 /\ gen[e] # "none") => (Settled(e - 1) /\ Handled(e - 1))
    /\ finished => \A e \in Entries : Settled(e)

C10_Witness ==
    /\ Len(prompts) >= 2
    /\ gen[2] = "pending"
    /\ gen[1] = "fulfilled"
    /\ PostPending(1)

-----------------------------------------------------------------------------
(* Properties of the filename resolver *)

JpgOnce(fileName) ==
    endsWith(fileName, DotJpg) /\ ~endsWith(fileName, DotJpg \o DotJpg)

\* C6 as stated: the resolved filename ends in .jpg exactly once.
C6_EndsInJpgOnce ==
    nm.stage = "resolved" => JpgOnce(nm.out)

\* C6 amended: the resolved filename ends in .jpg when letter case is ignored.
C6_EndsInJpgAnyCase ==
    nm.stage = "resolved" => endsWith(toLowerCase(nm.out), DotJpg)

C6_Witness ==
    /\ nm.stage = "resolved"
    /\ nm.template = <<"a">> \o DotJpg \o <<".","p","n","g">>
    /\ nm.out = <<"a">> \o DotJpg \o DotJpg

\* C7: with a run identifier and a template, the resolved filename is the
\* extension-fixed template behind '<runIdentifier>_', or the extension-fixed
\* template itself when it already starts with that prefix; 'ruler.png' under
\* 'run1' resolves to 'run1_ruler.jpg'.
C7_SerialPrefix ==
    (nm.stage = "resolved" /\ nm.serial # <<>> /\ nm.template # <<>>) =>
        LET fixed == ensureJpg(substituteTimestamp(nm.template, nm.now))
            prefix == nm.serial \o <<"_">>
        IN  /\ startsWith(fixed, prefix) => nm.out = fixed
            /\ ~startsWith(fixed, prefix) => nm.out = prefix \o fixed
            /\ (nm.template = RulerPng /\ nm.serial = Run1) =>
                   nm.out = <<"r","u","n","1","_","r","u","l","e","r",
                              ".","j","p","g">>

C7_Witness ==
    /\ nm.stage = "resolved"
    /\ nm.serial = Run1
    /\ nm.template = Run1 \o <<"_", "a">>
    /\ nm.out = Run1 \o <<"_", "a">> \o DotJpg

\* C8: applying the extension rule to its own result changes nothing.
C8_EnsureJpgIdempotent ==
    nm.stage = "ensuredTwice" => nm.out = ensureJpg(nm.template)

C8_Witness ==
    /\ nm.stage = "ensuredTwice"
    /\ nm.template = <<"a",".",".","p","n","g">>
    /\ nm.out = <<"a",".",".","j","p","g">>

-----------------------------------------------------------------------------
(* Properties of the payload extractor *)

\* a node that carries an image payload
IsImagePayload(v) ==
    /\ v.t = "obj"
    /\ Get(v, "inlineData").t = "obj"
    /\ Get(Get(v, "inlineData"), "mimeType").t = "str"
    /\ startsWith(Get(Get(v, "inlineData"), "mimeType").s, ImagePrefix)

\* every image payload node of a value, with its depth
RECURSIVE ImageNodes(_, _)
ImageNodes(v, depth) ==
    (IF IsImagePayload(v) THEN { <<depth, v>> } ELSE {})
        \cup UNION { ImageNodes(v.vals[k], depth + 1) : k \in 1..Len(v.vals) }

\* C5: when the direct path finds nothing, the structural search returns a
\* node exactly when an image payload node lies at depth 8 or less, and the
\* node itself when it is the only one; a payload at depth 9 or more alone
\* yields no match.
C5_DepthBound ==
    (ex.stage = "extracted" /\ directPath(ex.resp) = Undef) =>
        LET hits == ImageNodes(ex.resp, 0)
        IN  /\ (\E h \in hits : h[1] <= 8) => ex.out.t = "obj"
            /\ (\A h \in hits : h[1] >= 9) => ex.out = Null
            /\ \A h \in hits : (hits = {h} /\ h[1] <= 8) => ex.out = h[2]

C5_Witness ==
    /\ ex.stage = "extracted"
    /\ directPath(ex.resp) = Undef
    /\ \E h \in ImageNodes(ex.resp, 0) : h[1] = 9
    /\ ex.out = Null

\* the nodes of a value down to depth 8, in depth-first pre-order
RECURSIVE PreOrder(_, _)
PreOrder(v, depth) ==
    IF depth > 8 THEN <<>>
    ELSE LET RECURSIVE Children(_)
             Children(k) ==
                 IF k > Len(v.vals) THEN <<>>
                 ELSE PreOrder(v.vals[k], depth + 1) \o Children(k + 1)
         IN  <<v>> \o Children(1)

FirstImage(seq) ==
    IF \E k \in 1..Len(seq) : IsImagePayload(seq[k])
    THEN seq[CHOOSE k \in 1..Len(seq) :
                 /\ IsImagePayload(seq[k])
                 /\ \A m \in 1..(k - 1) : ~IsImagePayload(seq[m])]
    ELSE Undef

\* the parts list of the first candidate, empty when there is none
FirstCandidateParts(resp) ==
    LET parts == Get(Index0(Get(resp, "candidates")), "content")
    IN  IF Get(parts, "parts").t = "arr" THEN Get(parts, "parts").vals ELSE <<>>

\* C9: the extractor returns the first image part of the first candidate's
\* parts when there is one, otherwise the first image payload node in
\* depth-first pre-order within the depth bound, and no payload only when
\* there is neither.
C9_ExtractorResult ==
    ex.stage = "extracted" =>
        LET direct == FirstImage(FirstCandidateParts(ex.resp))
            searched == FirstImage(PreOrder(ex.resp, 0))
        IN  IF direct # Undef THEN ex.out = direct
            ELSE IF searched # Undef THEN ex.out = searched
            ELSE ex.out.t # "obj"

====
